---------------------------- MODULE Spec2Model ----------------------------
(***************************************************************************)
(* A model of the Trading Lab utilities (src/utils): project-root search,  *)
(* configuration loading and lookup, raw / processed CSV loading and       *)
(* trained-model loading.                                                  *)
(*                                                                         *)
(* Every function of the package is a synchronous call that reads the      *)
(* filesystem and returns or raises.  The state is therefore the           *)
(* environment a call runs in (fs), the call that was made (call), the     *)
(* files it opened (opened) and its outcome (result).  Each specification  *)
(* draws an environment in Init and makes one call with arguments drawn    *)
(* from small sets.                                                        *)
(***************************************************************************)
EXTENDS Integers, Sequences, FiniteSets, TLC

VARIABLES fs, call, opened, result

vars == <<fs, call, opened, result>>

\* Optional[T]: None is the empty sequence, a given value x is <<x>>.
None == <<>>
Some(x) == <<x>>
IsNone(o) == o = <<>>
Get(o) == o[1]

Range(s) == {s[i] : i \in 1..Len(s)}

(***************************************************************************)
(* paths.py                                                                *)
(*                                                                         *)
(* The directories that matter to get_project_root are the ones on the     *)
(* chain from the filesystem root (depth 0) down to the deepest directory  *)
(* considered (depth MaxDepth).  The directory at depth i is the component *)
(* i of every path through it, so the absolute path of the directory at    *)
(* depth k is <<1, ..., k>>.  A pathlib.Path is its spelling: absolute or  *)
(* relative to the working directory, with its components.                 *)
(***************************************************************************)
MaxDepth == 6
MaxMarked == 2

Markers == {"requirements.txt", "data/raw", "models", "src"}
MarkerChoices == {{}} \cup {{m} : m \in Markers} \cup {Markers}
Levels == 0..MaxDepth

Placements ==
    {p \in [Levels -> MarkerChoices] :
        Cardinality({i \in Levels : p[i] # {}}) <= MaxMarked}

AbsPath(k) == [abs |-> TRUE, parts |-> [i \in 1..k |-> i]]
RelPath(c, k) == [abs |-> FALSE, parts |-> [i \in 1..(k - c) |-> c + i]]

\* Path.cwd(): the absolute path of the working directory.
Cwd(f) == AbsPath(f.cwd)

\* PurePath.parent is lexical: it drops the last component, and the parent of
\* an anchor ("/") or of the empty relative path (".") is the path itself.
Parent(p) ==
    IF Len(p.parts) = 0 THEN p
    ELSE [p EXCEPT !.parts = SubSeq(p.parts, 1, Len(p.parts) - 1)]

\* The depth of the directory a path names: a relative path is taken from the
\* working directory.
DepthOf(f, p) == IF p.abs THEN Len(p.parts) ELSE f.cwd + Len(p.parts)

\* Path.resolve(): the absolute path of the same directory.
Resolve(f, p) == AbsPath(DepthOf(f, p))

\* (check_path / marker).exists()
MarkerExists(f, p, m) == m \in f.markers[DepthOf(f, p)]

HasMarker(f, p) ==
    \/ MarkerExists(f, p, "requirements.txt")
    \/ MarkerExists(f, p, "data/raw")
    \/ MarkerExists(f, p, "models")
    \/ MarkerExists(f, p, "src")

\* The five directories checked, nearest first.
CheckPaths(start) ==
    << start,
       Parent(start),
       Parent(Parent(start)),
       Parent(Parent(Parent(start))),
       Parent(Parent(Parent(Parent(start)))) >>

RECURSIVE FirstMarked(_, _, _)
FirstMarked(f, ps, fallback) ==
    IF ps = <<>> THEN Resolve(f, fallback)
    ELSE IF HasMarker(f, Head(ps)) THEN Resolve(f, Head(ps))
    ELSE FirstMarked(f, Tail(ps), fallback)

GetProjectRoot(f, start_path) ==
    LET start == IF IsNone(start_path) THEN Cwd(f) ELSE Get(start_path)
    IN  FirstMarked(f, CheckPaths(start), start)

StartPaths(f) ==
    {None} \cup {Some(AbsPath(k)) : k \in Levels}
           \cup {Some(RelPath(f.cwd, k)) : k \in f.cwd..MaxDepth}

Pending == [status |-> "pending", exc |-> ""]
Returned(v) == [status |-> "returned", exc |-> "", value |-> v]

InitPaths ==
    /\ fs \in [cwd : Levels, markers : Placements]
    /\ call = [fn |-> "none"]
    /\ opened = {}
    /\ result = Pending

get_project_root ==
    /\ result.status = "pending"
    /\ \E start_path \in StartPaths(fs) :
          /\ call' = [fn |-> "get_project_root", start_path |-> start_path]
          /\ result' = Returned(GetProjectRoot(fs, start_path))
    /\ UNCHANGED <<fs, opened>>

NextPaths == get_project_root

SpecPaths == InitPaths /\ [][NextPaths]_vars

\* The directory the call started from, as a depth on the chain.
StartDepth ==
    IF IsNone(call.start_path) THEN fs.cwd ELSE DepthOf(fs, Get(call.start_path))

\* The start directory and its first four ancestors in the filesystem.
Searched(d) == {j \in Levels : j <= d /\ j >= d - 4}

NearestMarked(d) ==
    LET hits == {j \in Searched(d) : fs.markers[j] # {}}
    IN  IF hits = {} THEN d ELSE CHOOSE j \in hits : \A i \in hits : i <= j

\* C1: get_project_root(start) returns the nearest directory among start and
\* its first four ancestors that holds a marker, the starting directory when
\* none of the five does, and it never raises.
C1_NearestMarkedDirectory ==
    call.fn = "get_project_root" =>
        /\ result.status = "returned"
        /\ result.value = AbsPath(NearestMarked(StartDepth))

\* The same statement for a call that leaves start_path out or gives an
\* absolute path.
RootOfAbsoluteStart ==
    (call.fn = "get_project_root"
        /\ (IsNone(call.start_path) \/ Get(call.start_path).abs)) =>
        /\ result.status = "returned"
        /\ result.value = AbsPath(NearestMarked(StartDepth))

(***************************************************************************)
(* config.py                                                               *)
(*                                                                         *)
(* A configuration value is a mapping (dict) or anything else (a leaf).    *)
(* Both are records of one shape so that they can sit in one set: a leaf   *)
(* carries its value, a mapping its items.                                 *)
(***************************************************************************)
Leaf(v) == [dict |-> FALSE, leaf |-> v, items |-> <<>>]
Dict(f) == [dict |-> TRUE, leaf |-> "", items |-> f]
EmptyDict == Dict(<<>>)

\* isinstance(value, dict)
IsDict(x) == x.dict

\* _merge_config with every key overwritten by the user's value: no recursion.
MergeShallow(default, user) ==
    [k \in (DOMAIN default) \cup (DOMAIN user) |->
        IF k \in DOMAIN user THEN user[k] ELSE default[k]]

\* _merge_config(default, user) on the items of two mappings: a copy of
\* default in which every key of user is merged (both values mappings) or
\* overwritten.
RECURSIVE _merge_config(_, _)
_merge_config(default, user) ==
    [k \in (DOMAIN default) \cup (DOMAIN user) |->
        IF k \in DOMAIN user
        THEN IF k \in DOMAIN default /\ IsDict(default[k]) /\ IsDict(user[k])
             THEN Dict(_merge_config(default[k].items, user[k].items))
             ELSE user[k]
        ELSE default[k]]

_get_default_config ==
    Dict([k \in {"trading", "features", "model", "backtest"} |->
        CASE k = "trading" ->
                Dict([j \in {"symbol", "timeframe", "lookback_days"} |->
                    CASE j = "symbol" -> Leaf("SPY")
                      [] j = "timeframe" -> Leaf("D1")
                      [] j = "lookback_days" -> Leaf("5000")])
          [] k = "features" ->
                Dict([j \in {"horizon_days", "rsi_period", "ema_short",
                             "ema_long", "atr_period"} |->
                    CASE j = "horizon_days" -> Leaf("5")
                      [] j = "rsi_period" -> Leaf("14")
                      [] j = "ema_short" -> Leaf("20")
                      [] j = "ema_long" -> Leaf("50")
                      [] j = "atr_period" -> Leaf("14")])
          [] k = "model" ->
                Dict([j \in {"n_estimators", "learning_rate", "train_ratio",
                             "random_state"} |->
                    CASE j = "n_estimators" -> Leaf("100")
                      [] j = "learning_rate" -> Leaf("0.05")
                      [] j = "train_ratio" -> Leaf("0.8")
                      [] j = "random_state" -> Leaf("42")])
          [] k = "backtest" ->
                Dict([j \in {"initial_capital", "commission_rate", "slippage"} |->
                    CASE j = "initial_capital" -> Leaf("100.0")
                      [] j = "commission_rate" -> Leaf("0.001")
                      [] j = "slippage" -> Leaf("0.0001")])])

(***************************************************************************)
(* Bounded sets of configuration values: mappings nested at most MaxNest   *)
(* deep with the given leaves.  The innermost mappings take their keys     *)
(* from `inner`, the ones around them from `keys`.                         *)
(***************************************************************************)
MaxNest == 2

PartialFunctions(keys, vals) == UNION {[S -> vals] : S \in SUBSET keys}

RECURSIVE ValuesTo(_, _, _, _)
ValuesTo(keys, inner, leaves, depth) ==
    IF depth = 0 THEN {Leaf(v) : v \in leaves}
    ELSE LET below == ValuesTo(keys, inner, leaves, depth - 1)
             here == IF depth = 1 THEN inner ELSE keys
         IN  below \cup {Dict(f) : f \in PartialFunctions(here, below)}

Mappings(keys, inner, leaves) ==
    {x \in ValuesTo(keys, inner, leaves, MaxNest) : IsDict(x)}

(***************************************************************************)
(* _merge_config on arbitrary mappings.                                    *)
(***************************************************************************)
MergeKeys == {"a", "b"}

InitMerge ==
    /\ fs = [none |-> TRUE]
    /\ call \in [fn : {"args"},
                 default : Mappings(MergeKeys, {"a"}, {"d"}),
                 user : Mappings(MergeKeys, {"a"}, {"u"})]
    /\ opened = {}
    /\ result = Pending

merge_config ==
    /\ result.status = "pending"
    /\ call' = [call EXCEPT !.fn = "_merge_config"]
    /\ result' = Returned(Dict(_merge_config(call.default.items, call.user.items)))
    /\ UNCHANGED <<fs, opened>>

NextMerge == merge_config

SpecMerge == InitMerge /\ [][NextMerge]_vars

\* Key paths into mappings nested at most MaxNest deep.
KeyPaths(keys) == UNION {[1..n -> keys] : n \in 0..MaxNest}

\* Whether following the keys of p from x stays inside mappings that hold them.
RECURSIVE Defined(_, _)
Defined(x, p) ==
    IF p = <<>> THEN TRUE
    ELSE /\ IsDict(x)
         /\ Head(p) \in DOMAIN x.items
         /\ Defined(x.items[Head(p)], Tail(p))

RECURSIVE At(_, _)
At(x, p) == IF p = <<>> THEN x ELSE At(x.items[Head(p)], Tail(p))

Prefix(p, i) == SubSeq(p, 1, i)
Front(p) == SubSeq(p, 1, Len(p) - 1)

\* U leaves the path p of D alone: somewhere along p, U holds a mapping that
\* lacks the next key.
NotOverridden(U, p) ==
    \E i \in 0..(Len(p) - 1) :
        /\ Defined(U, Prefix(p, i))
        /\ IsDict(At(U, Prefix(p, i)))
        /\ p[i + 1] \notin DOMAIN At(U, Prefix(p, i)).items

MergeLeavesWin(D, U, R) ==
    \A p \in KeyPaths(MergeKeys) :
        (Defined(U, p) /\ ~IsDict(At(U, p))) =>
            (Defined(R, p) /\ At(R, p) = At(U, p))

MergeDefaultsSurvive(D, U, R) ==
    \A p \in KeyPaths(MergeKeys) :
        (Defined(D, p) /\ NotOverridden(U, p)) =>
            (Defined(R, p) /\ At(R, p) = At(D, p))

MergeRecursive(D, U, R) ==
    \A p \in KeyPaths(MergeKeys) :
        (Defined(D, p) /\ Defined(U, p) /\ IsDict(At(D, p)) /\ IsDict(At(U, p))) =>
            /\ Defined(R, p)
            /\ IsDict(At(R, p))
            /\ DOMAIN At(R, p).items =
                   (DOMAIN At(D, p).items) \cup (DOMAIN At(U, p).items)

MergeWholesale(D, U, R) ==
    \A p \in KeyPaths(MergeKeys) \ {<<>>} :
        ( /\ Defined(U, p)
          /\ Defined(D, Front(p))
          /\ IsDict(At(D, Front(p)))
          /\ \/ ~Defined(D, p)
             \/ ~IsDict(At(D, p))
             \/ ~IsDict(At(U, p)) ) =>
            (Defined(R, p) /\ At(R, p) = At(U, p))

\* C3: in the merge of U over D every leaf of U has U's value, every path of
\* D that U does not override keeps D's value, mappings on both sides are
\* merged key by key, and a non-mapping on either side is replaced by U's
\* value as a whole.
C3_DeepMerge ==
    call.fn = "_merge_config" =>
        /\ result.status = "returned"
        /\ MergeLeavesWin(call.default, call.user, result.value)
        /\ MergeDefaultsSurvive(call.default, call.user, result.value)
        /\ MergeRecursive(call.default, call.user, result.value)
        /\ MergeWholesale(call.default, call.user, result.value)

\* A merge in which one key holds mappings on both sides, with a leaf the
\* user overrides, and another key is the default's alone.
C3_Witness ==
    /\ call.fn = "_merge_config"
    /\ call.default = Dict([k \in {"a", "b"} |->
                            IF k = "a" THEN Dict([j \in {"a"} |-> Leaf("d")])
                            ELSE Leaf("d")])
    /\ call.user = Dict([k \in {"a"} |-> Dict([j \in {"a"} |-> Leaf("u")])])
    /\ result.value = Dict([k \in {"a", "b"} |->
                            IF k = "a" THEN Dict([j \in {"a"} |-> Leaf("u")])
                            ELSE Leaf("d")])

(***************************************************************************)
(* get_config_value.  A key path is a string, modelled as the sequence of  *)
(* its characters; the keys of the configurations it is applied to are     *)
(* such sequences too (the empty key included).                            *)
(***************************************************************************)
MaxPathLen == 3

Chars == {"a", "b", "."}
KeyStrings == {<<"a">>, <<>>}
KeyPathStrings == UNION {[1..n -> Chars] : n \in 0..MaxPathLen}

\* str.split('.'): the pieces between the dots, empty pieces kept.
RECURSIVE SplitDots(_, _, _)
SplitDots(s, piece, pieces) ==
    IF s = <<>> THEN Append(pieces, piece)
    ELSE IF Head(s) = "." THEN SplitDots(Tail(s), <<>>, Append(pieces, piece))
    ELSE SplitDots(Tail(s), Append(piece, Head(s)), pieces)

Split(s) == SplitDots(s, <<>>, <<>>)

\* The loop of get_config_value with its early return dropped: a key that
\* cannot be followed is skipped.
RECURSIVE WalkLenient(_, _, _)
WalkLenient(value, keys, default) ==
    IF keys = <<>> THEN value
    ELSE IF IsDict(value) /\ Head(keys) \in DOMAIN value.items
         THEN WalkLenient(value.items[Head(keys)], Tail(keys), default)
         ELSE WalkLenient(value, Tail(keys), default)

\* The loop of get_config_value over the keys still to follow.
RECURSIVE Walk(_, _, _)
Walk(value, keys, default) ==
    IF keys = <<>> THEN value
    ELSE IF IsDict(value) /\ Head(keys) \in DOMAIN value.items
         THEN Walk(value.items[Head(keys)], Tail(keys), default)
         ELSE default

GetConfigValue(config, key_path, default) == Walk(config, Split(key_path), default)

InitGet ==
    /\ fs = [none |-> TRUE]
    /\ call \in [fn : {"args"}, config : Mappings(KeyStrings, KeyStrings, {"v"})]
    /\ opened = {}
    /\ result = Pending

get_config_value ==
    /\ result.status = "pending"
    /\ \E key_path \in KeyPathStrings, default \in {Leaf("default")} :
          /\ call' = [fn |-> "get_config_value", config |-> call.config,
                      key_path |-> key_path, default |-> default]
          /\ result' = Returned(GetConfigValue(call.config, key_path, default))
    /\ UNCHANGED <<fs, opened>>

NextGet == get_config_value

SpecGet == InitGet /\ [][NextGet]_vars

\* The keys a dot-path names: with n dots there are n + 1 keys, the i-th the
\* characters between the (i-1)-th dot and the i-th.
DotsOf(s) == {i \in 1..Len(s) : s[i] = "."}
NthDot(s, n) == CHOOSE d \in DotsOf(s) : Cardinality({e \in DotsOf(s) : e < d}) = n - 1
KeysOf(s) ==
    LET n == Cardinality(DotsOf(s)) + 1
    IN  [i \in 1..n |->
            SubSeq(s, IF i = 1 THEN 1 ELSE NthDot(s, i - 1) + 1,
                      IF i = n THEN Len(s) ELSE NthDot(s, i) - 1)]

\* C4: get_config_value returns the value reached by following the dotted
\* keys in order when each is present in a mapping, the default as soon as
\* one is not, and it never raises.
C4_DotPathLookup ==
    call.fn = "get_config_value" =>
        /\ result.status = "returned"
        /\ result.value =
             IF Defined(call.config, KeysOf(call.key_path))
             THEN At(call.config, KeysOf(call.key_path))
             ELSE call.default

\* The path "a.a" reaches a leaf two levels down.
C4_Witness ==
    /\ call.fn = "get_config_value"
    /\ call.key_path = <<"a", ".", "a">>
    /\ call.config = Dict([k \in {<<"a">>} |-> Dict([j \in {<<"a">>} |-> Leaf("v")])])
    /\ result.value = Leaf("v")

(***************************************************************************)
(* load_config.  The working directory is at depth MaxCfgDepth; it and its *)
(* parent may hold the three candidate files.  A file is absent, empty     *)
(* (yaml.safe_load gives None) or holds a mapping, which names the file it *)
(* is in so that the file a result came from can be told.                  *)
(***************************************************************************)
MaxCfgDepth == 1

CfgLevels == 0..MaxCfgDepth
CfgFileLevels == {l \in CfgLevels : l >= MaxCfgDepth - 1}
ConfigNames == { <<"config.yaml">>,
                 <<"config", "config.yaml">>,
                 <<"config", "config.example.yaml">> }

File(dir, name) == [dir |-> dir, name |-> name]

UserSymbol(name) ==
    CASE name = <<"config.yaml">> -> "ROOT"
      [] name = <<"config", "config.yaml">> -> "SUB"
      [] name = <<"config", "config.example.yaml">> -> "EXAMPLE"

UserConfig(name) ==
    Dict([k \in {"trading", "extra"} |->
            IF k = "trading" THEN Dict([j \in {"symbol"} |-> Leaf(UserSymbol(name))])
            ELSE Leaf("x")])

AbsentFile == [exists |-> FALSE, yaml |-> None]
EmptyFile == [exists |-> TRUE, yaml |-> None]
MappingFile(name) == [exists |-> TRUE, yaml |-> Some(UserConfig(name))]

DirListings ==
    {[n \in ConfigNames |->
        IF n \in A THEN AbsentFile
        ELSE IF n \in E THEN EmptyFile ELSE MappingFile(n)] :
        A \in SUBSET ConfigNames, E \in SUBSET ConfigNames}

ConfigTrees == [CfgFileLevels -> DirListings]

\* The file a path names, by the depth of its directory.
Resolved(f, file) == File(DepthOf(f, file.dir), file.name)

\* path.exists()
FileExists(f, file) ==
    LET r == Resolved(f, file)
    IN  /\ r.dir \in DOMAIN f.files
        /\ r.name \in DOMAIN f.files[r.dir]
        /\ f.files[r.dir][r.name].exists

\* yaml.safe_load(f) or {}
SafeLoadOrEmpty(f, file) ==
    LET r == Resolved(f, file)
        y == f.files[r.dir][r.name].yaml
    IN  IF IsNone(y) THEN EmptyDict ELSE Get(y)

\* The candidate list with the example file tried first.
ExampleFirst(project_root) ==
    << File(project_root, <<"config", "config.example.yaml">>),
       File(project_root, <<"config.yaml">>),
       File(project_root, <<"config", "config.yaml">>) >>

possible_paths(project_root) ==
    << File(project_root, <<"config.yaml">>),
       File(project_root, <<"config", "config.yaml">>),
       File(project_root, <<"config", "config.example.yaml">>) >>

\* for path in possible_paths: if path.exists(): ... break; else: None
RECURSIVE FirstExisting(_, _)
FirstExisting(f, paths) ==
    IF paths = <<>> THEN None
    ELSE IF FileExists(f, Head(paths)) THEN Some(Head(paths))
    ELSE FirstExisting(f, Tail(paths))

\* The files load_config opens and the configuration it returns.
LoadConfig(f, config_path) ==
    LET found == IF IsNone(config_path)
                 THEN FirstExisting(f, possible_paths(GetProjectRoot(f, None)))
                 ELSE config_path
    IN  IF IsNone(found) THEN [opened |-> {}, value |-> _get_default_config]
        ELSE IF ~FileExists(f, Get(found))
        THEN [opened |-> {}, value |-> _get_default_config]
        ELSE [opened |-> {Resolved(f, Get(found))},
              value |-> Dict(_merge_config(_get_default_config.items,
                                           SafeLoadOrEmpty(f, Get(found)).items))]

ConfigPathArgs(f) ==
    {None} \cup {Some(File(Cwd(f), n)) : n \in ConfigNames \cup {<<"other.yaml">>}}

InitConfig ==
    /\ fs \in [cwd : {MaxCfgDepth},
               markers : [CfgLevels -> {{}, {"requirements.txt"}}],
               files : ConfigTrees]
    /\ call = [fn |-> "none"]
    /\ opened = {}
    /\ result = Pending

load_config ==
    /\ result.status = "pending"
    /\ \E config_path \in ConfigPathArgs(fs) :
          LET r == LoadConfig(fs, config_path)
          IN  /\ call' = [fn |-> "load_config", config_path |-> config_path]
              /\ opened' = r.opened
              /\ result' = Returned(r.value)
    /\ UNCHANGED fs

NextConfig == load_config

SpecConfig == InitConfig /\ [][NextConfig]_vars

CandidateOrder ==
    << <<"config.yaml">>,
       <<"config", "config.yaml">>,
       <<"config", "config.example.yaml">> >>

\* The candidates present in the project root, by their rank.
PresentRanks ==
    LET root == NearestMarked(fs.cwd)
    IN  {i \in 1..3 : /\ root \in DOMAIN fs.files
                      /\ fs.files[root][CandidateOrder[i]].exists}

PathOf(dir, sub, name) == [dir |-> dir, sub |-> sub, name |-> name]

\* fnmatch of a name against a pattern.
RECURSIVE GlobMatch(_, _)
GlobMatch(pattern, name) ==
    IF pattern = <<>> THEN name = <<>>
    ELSE IF Head(pattern) = "*"
         THEN \/ GlobMatch(Tail(pattern), name)
              \/ (name # <<>> /\ GlobMatch(pattern, Tail(name)))
         ELSE /\ name # <<>>
              /\ Head(name) = Head(pattern)
              /\ GlobMatch(Tail(pattern), Tail(name))

\* The directory <level>/data/<data_type>: [exists, files], files a function
\* from the names in it to their tables.  Only the project directory of the
\* environment has data directories.
NoDirectory == [exists |-> FALSE, files |-> <<>>]
DataDir(f, level, data_type) ==
    IF level # f.project THEN NoDirectory
    ELSE IF data_type = "raw" THEN f.raw ELSE f.processed

RootLevel(f) == DepthOf(f, GetProjectRoot(f, None))

\* resolve_data_path(relative_path, data_type)
resolve_data_path(f, relative_path, data_type) ==
    PathOf(RootLevel(f), data_type, relative_path)

\* csv_path.exists()
DataFileExists(f, path) ==
    LET d == DataDir(f, path.dir, path.sub)
    IN  d.exists /\ path.name \in DOMAIN d.files

\* find_data_file(pattern, data_type): the paths it may return (the first of
\* glob's matches, whose order is the filesystem's), or {None}.
find_data_file(f, pattern, data_type) ==
    LET d == DataDir(f, RootLevel(f), data_type)
        matches == {n \in DOMAIN d.files : GlobMatch(pattern, n)}
    IN  IF ~d.exists THEN {None}
        ELSE IF matches = {} THEN {None}
        ELSE {Some(PathOf(RootLevel(f), data_type, n)) : n \in matches}

(***************************************************************************)
(* A DataFrame: its column names in header order and its rows, each a      *)
(* sequence of cells in that order.  The cell of a time-like column of a   *)
(* CSV is a date string; every other cell holds the number of its row in   *)
(* the file.                                                               *)
(***************************************************************************)
MaxRows == 2

ColumnOrder == <<"time", "date", "Date", "open", "high", "low", "close", "volume">>
TimeColumns == {"time", "date", "Date"}
OptionalColumns == {"time", "date", "Date", "open", "high", "low", "close"}
RawTimes == {"01/02/2024", "12/31/2023"}

\* pd.to_datetime(cell, utc=True), as days since 2023-12-30.
ToDatetime(cell) ==
    CASE cell = "01/02/2024" -> 3
      [] cell = "12/31/2023" -> 1

HeaderOf(S) == SelectSeq(ColumnOrder, LAMBDA c : c \in S \cup {"volume"})
Headers == {HeaderOf(S) : S \in SUBSET OptionalColumns}

TablesOf(h) ==
    UNION {
        {[columns |-> h,
          rows |-> [i \in 1..n |->
                      [k \in 1..Len(h) |->
                          IF h[k] \in TimeColumns THEN a[i][h[k]] ELSE i]]] :
            a \in [1..n -> [Range(h) \cap TimeColumns -> RawTimes]]} :
        n \in 0..MaxRows}

Tables == UNION {TablesOf(h) : h \in Headers}

\* 'c' in df.columns
HasColumn(df, c) == c \in Range(df.columns)

\* The position of the first column named c.
ColumnIndex(df, c) ==
    CHOOSE k \in 1..Len(df.columns) :
        df.columns[k] = c /\ \A j \in 1..(k - 1) : df.columns[j] # c

\* df[c] = pd.to_datetime(df[c], utc=True)
ConvertColumn(df, c) ==
    LET k == ColumnIndex(df, c)
    IN  [df EXCEPT !.rows =
            [i \in 1..Len(df.rows) |->
                [df.rows[i] EXCEPT ![k] = ToDatetime(df.rows[i][k])]]]

\* df.rename(columns={old: new}, inplace=True)
RenameColumn(df, old, new) ==
    [df EXCEPT !.columns =
        [k \in 1..Len(df.columns) |->
            IF df.columns[k] = old THEN new ELSE df.columns[k]]]

\* The time normalisation of load_raw_data with Date looked for before date.
EnsureTimeCapitalFirst(df) ==
    IF HasColumn(df, "time") THEN ConvertColumn(df, "time")
    ELSE IF HasColumn(df, "Date")
    THEN RenameColumn(ConvertColumn(df, "Date"), "Date", "time")
    ELSE IF HasColumn(df, "date")
    THEN RenameColumn(ConvertColumn(df, "date"), "date", "time")
    ELSE df

\* The if / elif / elif of load_raw_data over time, date, Date.
EnsureTimeRaw(df) ==
    IF HasColumn(df, "time") THEN ConvertColumn(df, "time")
    ELSE IF HasColumn(df, "date")
    THEN RenameColumn(ConvertColumn(df, "date"), "date", "time")
    ELSE IF HasColumn(df, "Date")
    THEN RenameColumn(ConvertColumn(df, "Date"), "Date", "time")
    ELSE df

\* The single if of load_processed_data.
EnsureTimeProcessed(df) ==
    IF HasColumn(df, "time") THEN ConvertColumn(df, "time") ELSE df

\* Insert a row behind the rows that do not sort after it.
RECURSIVE InsertRow(_, _, _)
InsertRow(sorted, row, k) ==
    IF sorted = <<>> THEN <<row>>
    ELSE IF Head(sorted)[k] <= row[k]
         THEN <<Head(sorted)>> \o InsertRow(Tail(sorted), row, k)
         ELSE <<row>> \o sorted

RECURSIVE SortRows(_, _, _)
SortRows(done, rest, k) ==
    IF rest = <<>> THEN done
    ELSE SortRows(InsertRow(done, Head(rest), k), Tail(rest), k)

Raised(exc, detail) == [status |-> "raised", exc |-> exc, detail |-> detail]

\* df.sort_values(by).reset_index(drop=True): the sorted frame, or the
\* KeyError of a column that is not there.  Rows with equal keys keep their
\* order here; pandas leaves their order open.
SortValues(df, by) ==
    IF ~HasColumn(df, by) THEN Raised("KeyError", <<by>>)
    ELSE Returned([df EXCEPT !.rows = SortRows(<<>>, df.rows, ColumnIndex(df, by))])

required_cols == <<"time", "open", "high", "low", "close">>

\* The validation at the end of load_raw_data.
ValidateRequired(df) ==
    LET missing_cols == SelectSeq(required_cols, LAMBDA col : ~HasColumn(df, col))
    IN  IF missing_cols # <<>> THEN Raised("ValueError", missing_cols)
        ELSE Returned(df)

\* load_raw_data from pd.read_csv on: normalise, sort, validate.
ProcessRaw(df) ==
    LET sorted == SortValues(EnsureTimeRaw(df), "time")
    IN  IF sorted.status = "raised" THEN sorted ELSE ValidateRequired(sorted.value)

\* load_processed_data from pd.read_csv on.
ProcessProcessed(df) == SortValues(EnsureTimeProcessed(df), "time")

\* pd.read_csv(csv_path)
ReadCsv(f, path) == DataDir(f, path.dir, path.sub).files[path.name]

\* if filename: (an empty string is no filename)
Truthy(filename) == ~IsNone(filename) /\ Get(filename) # <<>>

\* The choice of the raw file that looks for the pattern even when the named
\* file is missing.
SelectRawWithFallback(f, filename, pattern, symbol) ==
    IF Truthy(filename) /\ DataFileExists(f, resolve_data_path(f, Get(filename), "raw"))
    THEN {Some(resolve_data_path(f, Get(filename), "raw"))}
    ELSE LET first == find_data_file(f, pattern, "raw")
         IN  IF first # {None} THEN first
             ELSE find_data_file(f, <<symbol, "*", ".csv">>, "raw")

\* The first part of load_raw_data: the paths csv_path may end up as, None
\* standing for the FileNotFoundError.
SelectRaw(f, filename, pattern, symbol) ==
    IF Truthy(filename)
    THEN LET csv_path == resolve_data_path(f, Get(filename), "raw")
         IN  IF ~DataFileExists(f, csv_path) THEN {None} ELSE {Some(csv_path)}
    ELSE LET first == find_data_file(f, pattern, "raw")
         IN  IF first # {None} THEN first
             ELSE find_data_file(f, <<symbol, "*", ".csv">>, "raw")

\* The paths the FileNotFoundError of load_raw_data names.
RawNotFoundPaths(f, filename) ==
    IF Truthy(filename) THEN {resolve_data_path(f, Get(filename), "raw")}
    ELSE {PathOf(RootLevel(f), "raw", <<>>)}

\* The paths the FileNotFoundError of load_processed_data names.
ProcessedNotFoundPaths(f, filename) ==
    {resolve_data_path(f, filename, "processed"), PathOf(RootLevel(f), "processed", <<>>)}

(***************************************************************************)
(* model_loader.py                                                         *)
(*                                                                         *)
(* A model file is absent, corrupt (its loader raises) or valid (its       *)
(* loader returns the model stored in it).  The directories from depth     *)
(* MaxCwd - 2 down may hold a models/ directory with the two files of the  *)
(* model name; one more file may lie outside every project, in /tmp.       *)
(***************************************************************************)
MaxCwd == 2

CwdLevels == 0..MaxCwd
ModelLevels == {l \in CwdLevels : l >= MaxCwd - 2}
ModelNames == {"xgboost_spy_v1"}
Suffixes == {".pkl", ".json", ".bin"}
ModelFiles(model_name) == {<<model_name, ".pkl">>, <<model_name, ".json">>}

\* path.suffix
Suffix(path) == path.name[Len(path.name)]

ModelStatus(f, path) ==
    IF path.sub = "models"
    THEN IF path.dir \in DOMAIN f.models /\ path.name \in DOMAIN f.models[path.dir]
         THEN f.models[path.dir][path.name] ELSE "absent"
    ELSE IF path.sub = "tmp" /\ path.name = f.tmp.name THEN f.tmp.status
    ELSE "absent"

\* resolve_model_path(model_filename)
resolve_model_path(f, model_filename) == PathOf(RootLevel(f), "models", model_filename)

\* A path relative to the working directory ("models/..."), and one through
\* its parent ("../models/...").
InCwd(f, sub, name) == PathOf(f.cwd, sub, name)
InCwdParent(f, sub, name) == PathOf(IF f.cwd = 0 THEN 0 ELSE f.cwd - 1, sub, name)

\* possible_paths of load_trained_model.
possible_model_paths(f, model_name, model_path) ==
    IF ~IsNone(model_path) THEN <<Get(model_path)>>
    ELSE << resolve_model_path(f, <<model_name, ".pkl">>),
            resolve_model_path(f, <<model_name, ".json">>),
            PathOf(RootLevel(f), "models", <<model_name, ".pkl">>),
            PathOf(RootLevel(f), "models", <<model_name, ".json">>),
            InCwd(f, "models", <<model_name, ".pkl">>),
            InCwd(f, "models", <<model_name, ".json">>),
            InCwdParent(f, "models", <<model_name, ".pkl">>),
            InCwdParent(f, "models", <<model_name, ".json">>) >>

Loaded(path, model_type) == [model |-> path, model_type |-> model_type]

\* The loop of load_trained_model ended by the first candidate that fails to
\* load.
RECURSIVE TryStopAtFailure(_, _)
TryStopAtFailure(f, paths) ==
    IF paths = <<>> THEN None
    ELSE LET path == Head(paths)
         IN  IF ModelStatus(f, path) = "absent" THEN TryStopAtFailure(f, Tail(paths))
             ELSE IF Suffix(path) = ".json"
             THEN IF ~f.xgboost THEN TryStopAtFailure(f, Tail(paths))
                  ELSE IF ModelStatus(f, path) = "valid"
                  THEN Some(Loaded(path, "xgboost"))
                  ELSE None
             ELSE IF Suffix(path) = ".pkl"
             THEN IF ModelStatus(f, path) = "valid"
                  THEN Some(Loaded(path, "sklearn"))
                  ELSE None
             ELSE TryStopAtFailure(f, Tail(paths))

\* The loop of load_trained_model over the candidates left: the model and
\* its type at the break, or None when the list runs out.
RECURSIVE TryCandidates(_, _)
TryCandidates(f, paths) ==
    IF paths = <<>> THEN None
    ELSE LET path == Head(paths)
         IN  IF ModelStatus(f, path) = "absent" THEN TryCandidates(f, Tail(paths))
             ELSE IF Suffix(path) = ".json"
             THEN IF ~f.xgboost THEN TryCandidates(f, Tail(paths))
                  ELSE IF ModelStatus(f, path) = "valid"
                  THEN Some(Loaded(path, "xgboost"))
                  ELSE TryCandidates(f, Tail(paths))
             ELSE IF Suffix(path) = ".pkl"
             THEN IF ModelStatus(f, path) = "valid"
                  THEN Some(Loaded(path, "sklearn"))
                  ELSE TryCandidates(f, Tail(paths))
             ELSE TryCandidates(f, Tail(paths))

\* The paths the FileNotFoundError of load_trained_model names.
ModelNotFoundPaths(f, model_name) ==
    { PathOf(RootLevel(f), "models", <<model_name, ".pkl">>),
      PathOf(RootLevel(f), "models", <<model_name, ".json">>),
      PathOf(RootLevel(f), "models", <<>>) }

LoadTrainedModel(f, model_name, model_path) ==
    LET found == TryCandidates(f, possible_model_paths(f, model_name, model_path))
    IN  IF IsNone(found)
        THEN [opened |-> {},
              result |-> Raised("FileNotFoundError", ModelNotFoundPaths(f, model_name))]
        ELSE [opened |-> {Get(found).model}, result |-> Returned(Get(found))]

(***************************************************************************)
(* The environments of the loaders.                                        *)
(***************************************************************************)
RawNames == { <<"SPY", ".csv">>, <<"SPY", "_D1", ".csv">>,
              <<"QQQ", "_D1", ".csv">>, <<"SPY", ".txt">> }
ProcessedName == <<"spy_featured", ".csv">>

GoodTable ==
    [columns |-> <<"time", "open", "high", "low", "close", "volume">>,
     rows |-> << <<"01/02/2024", 1, 1, 1, 1, 1>>, <<"12/31/2023", 2, 2, 2, 2, 2>> >>]

NoModels == [l \in ModelLevels |-> [n \in ModelFiles("xgboost_spy_v1") |-> "absent"]]
NoTmp == [name |-> <<"m", ".pkl">>, status |-> "absent"]

\* A project at depth 1 with any set of raw files, seen from it or from a
\* subdirectory.
SelectionEnvs ==
    {[cwd |-> c, project |-> 1,
      markers |-> [l \in CwdLevels |->
                     IF l # 1 THEN {}
                     ELSE IF d.exists THEN {"src", "data/raw"} ELSE {"src"}],
      raw |-> d, processed |-> NoDirectory,
      models |-> NoModels, tmp |-> NoTmp, xgboost |-> TRUE] :
        c \in {1, 2},
        d \in {NoDirectory} \cup
              {[exists |-> TRUE, files |-> [n \in S |-> GoodTable]] :
                  S \in SUBSET RawNames}}

\* A project whose raw and processed files hold any table.
ContentEnvs ==
    {[cwd |-> 1, project |-> 1,
      markers |-> [l \in CwdLevels |-> IF l = 1 THEN {"src", "data/raw"} ELSE {}],
      raw |-> [exists |-> TRUE, files |-> [n \in {<<"SPY", ".csv">>} |-> t]],
      processed |-> [exists |-> TRUE, files |-> [n \in {ProcessedName} |-> t]],
      models |-> NoModels, tmp |-> NoTmp, xgboost |-> TRUE] :
        t \in Tables}

\* A directory holds a models/ directory when one of the model files is in
\* it; a directory without model files may hold another marker.
ModelListings == [ModelFiles("xgboost_spy_v1") -> {"absent", "corrupt", "valid"}]
Stocked(listing) == \E n \in DOMAIN listing : listing[n] # "absent"

SearchEnvs ==
    {[cwd |-> MaxCwd, project |-> 0,
      markers |-> [l \in CwdLevels |->
                     IF l \in ModelLevels /\ Stocked(m[l]) THEN {"models"}
                     ELSE IF l \in other THEN {"src"} ELSE {}],
      raw |-> NoDirectory, processed |-> NoDirectory,
      models |-> m, tmp |-> NoTmp, xgboost |-> x] :
        m \in [ModelLevels -> ModelListings],
        other \in SUBSET CwdLevels,
        x \in BOOLEAN}

ExplicitEnvs ==
    {[cwd |-> MaxCwd, project |-> 0,
      markers |-> [l \in CwdLevels |-> {}],
      raw |-> NoDirectory, processed |-> NoDirectory,
      models |-> NoModels, tmp |-> [name |-> <<"m", e>>, status |-> st],
      xgboost |-> x] :
        e \in Suffixes, st \in {"absent", "corrupt", "valid"}, x \in BOOLEAN}

Init ==
    /\ fs \in SelectionEnvs \cup ContentEnvs \cup SearchEnvs \cup ExplicitEnvs
    /\ call = [fn |-> "none"]
    /\ opened = {}
    /\ result = Pending

FilenameArgs == {None, Some(<<>>), Some(<<"SPY", ".csv">>), Some(<<"QQQ", "_D1", ".csv">>)}
PatternArgs == {<<"SPY", "*", ".csv">>, <<"*", ".txt">>}
SymbolArgs == {"SPY", "QQQ"}

load_raw_data ==
    /\ result.status = "pending"
    /\ \E filename \in FilenameArgs, pattern \in PatternArgs, symbol \in SymbolArgs :
       \E csv_path \in SelectRaw(fs, filename, pattern, symbol) :
          /\ call' = [fn |-> "load_raw_data", filename |-> filename,
                      pattern |-> pattern, symbol |-> symbol]
          /\ IF IsNone(csv_path)
             THEN /\ opened' = {}
                  /\ result' = Raised("FileNotFoundError", RawNotFoundPaths(fs, filename))
             ELSE /\ opened' = {Get(csv_path)}
                  /\ result' = ProcessRaw(ReadCsv(fs, Get(csv_path)))
    /\ UNCHANGED fs

load_processed_data ==
    /\ result.status = "pending"
    /\ \E filename \in {ProcessedName, <<"missing", ".csv">>} :
          LET csv_path == resolve_data_path(fs, filename, "processed")
          IN  /\ call' = [fn |-> "load_processed_data", filename |-> filename]
              /\ IF ~DataFileExists(fs, csv_path)
                 THEN /\ opened' = {}
                      /\ result' = Raised("FileNotFoundError",
                                          ProcessedNotFoundPaths(fs, filename))
                 ELSE /\ opened' = {csv_path}
                      /\ result' = ProcessProcessed(ReadCsv(fs, csv_path))
    /\ UNCHANGED fs

ModelPathArgs(f) ==
    { None,
      Some(PathOf(0, "tmp", f.tmp.name)),
      Some(PathOf(f.cwd, "models", <<"xgboost_spy_v1", ".json">>)) }

load_trained_model ==
    /\ result.status = "pending"
    /\ \E model_name \in ModelNames, model_path \in ModelPathArgs(fs) :
          LET r == LoadTrainedModel(fs, model_name, model_path)
          IN  /\ call' = [fn |-> "load_trained_model", model_name |-> model_name,
                          model_path |-> model_path]
              /\ opened' = r.opened
              /\ result' = r.result
    /\ UNCHANGED fs

Next == load_raw_data \/ load_processed_data \/ load_trained_model

Spec == Init /\ [][Next]_vars

(***************************************************************************)
(* The loaders' properties.  They speak of the project root as the nearest *)
(* marked directory above the working directory, and of the table of the   *)
(* file a call opened.                                                     *)
(***************************************************************************)
ProjectLevel == NearestMarked(fs.cwd)

TheOpened == CHOOSE path \in opened : TRUE
SourceTable == DataDir(fs, TheOpened.dir, TheOpened.sub).files[TheOpened.name]

\* The time-like column of a CSV that becomes `time`: the first present of
\* time, date, Date.
HasTimeSource(df) == Range(df.columns) \cap TimeColumns # {}
TimeSource(df) ==
    IF "time" \in Range(df.columns) THEN "time"
    ELSE IF "date" \in Range(df.columns) THEN "date" ELSE "Date"

NormalizedColumns(df) ==
    IF HasTimeSource(df)
    THEN (Range(df.columns) \ {TimeSource(df)}) \cup {"time"}
    ELSE Range(df.columns)

MissingRequired(df) ==
    SelectSeq(required_cols, LAMBDA col : col \notin NormalizedColumns(df))

\* C5: a raw CSV that lacks required columns fails with a ValueError that
\* lists exactly the missing ones, the time column included.
C5_MissingColumnsListed ==
    (call.fn = "load_raw_data" /\ opened # {} /\ MissingRequired(SourceTable) # <<>>) =>
        /\ result.status = "raised"
        /\ result.exc = "ValueError"
        /\ result.detail = MissingRequired(SourceTable)

\* The same statement for the CSVs that have one of time, date, Date.
MissingListedWhenTimed ==
    (call.fn = "load_raw_data" /\ opened # {} /\ HasTimeSource(SourceTable)
        /\ MissingRequired(SourceTable) # <<>>) =>
        /\ result.status = "raised"
        /\ result.exc = "ValueError"
        /\ result.detail = MissingRequired(SourceTable)

Position(seq, x) == CHOOSE k \in 1..Len(seq) : seq[k] = x
Occurrences(seq, x) == Cardinality({k \in 1..Len(seq) : seq[k] = x})

\* C6: a successful load_raw_data gives a table with one time column, taken
\* from the first present of time, date, Date (renamed when it was not
\* time), whose rows are the rows of the file ordered ascending by time.
C6_TimeNormalizedAndSorted ==
    (call.fn = "load_raw_data" /\ result.status = "returned") =>
        LET src == SourceTable
            out == result.value
            n == Len(src.rows)
            t == Position(out.columns, "time")
            id == Position(src.columns, "volume")
        IN  /\ HasTimeSource(src)
            /\ Occurrences(out.columns, "time") = 1
            /\ out.columns = [k \in 1..Len(src.columns) |->
                                IF src.columns[k] = TimeSource(src) THEN "time"
                                ELSE src.columns[k]]
            /\ Len(out.rows) = n
            /\ {out.rows[i][id] : i \in 1..n} = 1..n
            /\ \A i \in 1..n : \A k \in 1..Len(src.columns) :
                  out.rows[i][k] =
                      IF k = t THEN ToDatetime(src.rows[out.rows[i][id]][k])
                      ELSE src.rows[out.rows[i][id]][k]
            /\ \A i \in 1..n : \A j \in i..n : out.rows[i][t] <= out.rows[j][t]

\* A CSV with date and Date (in that header order, no time) whose two rows
\* are out of order by date: the load returned them swapped.
C6_Witness ==
    /\ call.fn = "load_raw_data"
    /\ result.status = "returned"
    /\ SourceTable.columns = <<"date", "Date", "open", "high", "low", "close", "volume">>
    /\ Len(SourceTable.rows) = 2
    /\ SourceTable.rows[1][1] = "01/02/2024"
    /\ SourceTable.rows[2][1] = "12/31/2023"
    /\ SourceTable.rows[1][2] = "12/31/2023"
    /\ result.value.rows[1][7] = 2
    /\ result.value.rows[2][7] = 1

\* C8: load_processed_data returns the table of every existing file, with or
\* without a time column, and fails only with a not-found error, only when
\* the file does not exist.
C8_TimeOptional ==
    call.fn = "load_processed_data" =>
        LET present == /\ fs.processed.exists
                       /\ ProjectLevel = fs.project
                       /\ call.filename \in DOMAIN fs.processed.files
        IN  /\ present => result.status = "returned"
            /\ result.status = "raised" =>
                  (result.exc = "FileNotFoundError" /\ ~present)

\* The same statement for the files that have a time column.
ProcessedWithTimeLoads ==
    (call.fn = "load_processed_data" /\ opened # {}
        /\ "time" \in Range(SourceTable.columns)) =>
        /\ result.status = "returned"
        /\ \A i \in 1..Len(result.value.rows) : \A j \in i..Len(result.value.rows) :
              result.value.rows[i][1] <= result.value.rows[j][1]

\* The names in <root>/data/raw, and the ones a pattern with one "*" fits:
\* those that start with what is before the "*" and end with what is after.
RawListing ==
    IF ProjectLevel = fs.project /\ fs.raw.exists THEN DOMAIN fs.raw.files ELSE {}

Star(pattern) == Position(pattern, "*")
Fits(pattern, name) ==
    LET before == SubSeq(pattern, 1, Star(pattern) - 1)
        after == SubSeq(pattern, Star(pattern) + 1, Len(pattern))
    IN  /\ Len(name) >= Len(before) + Len(after)
        /\ SubSeq(name, 1, Len(before)) = before
        /\ SubSeq(name, Len(name) - Len(after) + 1, Len(name)) = after

Fitting(pattern) == {n \in RawListing : Fits(pattern, n)}
RawPaths(names) == {PathOf(ProjectLevel, "raw", n) : n \in names}
NotFound == result.status = "raised" /\ result.exc = "FileNotFoundError"

\* C9: with a filename, load_raw_data reads that file of the raw directory
\* or fails not-found; without one, it reads a file that fits the pattern if
\* there is one, else one that fits <symbol>*.csv, and fails not-found only
\* when neither search finds a file.
C9_FileSelection ==
    call.fn = "load_raw_data" =>
        IF ~IsNone(call.filename) /\ Get(call.filename) # <<>>
        THEN IF Get(call.filename) \in RawListing
             THEN opened = RawPaths({Get(call.filename)}) /\ ~NotFound
             ELSE opened = {} /\ NotFound
        ELSE IF Fitting(call.pattern) # {}
             THEN /\ Cardinality(opened) = 1
                  /\ opened \subseteq RawPaths(Fitting(call.pattern))
                  /\ ~NotFound
        ELSE IF Fitting(<<call.symbol, "*", ".csv">>) # {}
             THEN /\ Cardinality(opened) = 1
                  /\ opened \subseteq RawPaths(Fitting(<<call.symbol, "*", ".csv">>))
                  /\ ~NotFound
        ELSE opened = {} /\ NotFound

\* No file fits the pattern, one fits the symbol: the call read it.
C9_Witness ==
    /\ call.fn = "load_raw_data"
    /\ IsNone(call.filename)
    /\ call.pattern = <<"*", ".txt">>
    /\ call.symbol = "QQQ"
    /\ fs.cwd = 2
    /\ RawListing = {<<"SPY", ".csv">>, <<"QQQ", "_D1", ".csv">>}
    /\ opened = {PathOf(1, "raw", <<"QQQ", "_D1", ".csv">>)}
    /\ result.status = "returned"

\* The candidates of a call, and the ones that load: existing, valid, and
\* of a suffix whose loader is there.
Candidates == possible_model_paths(fs, call.model_name, call.model_path)
Loads(path) ==
    /\ ModelStatus(fs, path) = "valid"
    /\ \/ Suffix(path) = ".pkl"
       \/ (Suffix(path) = ".json" /\ fs.xgboost)
Loading == {i \in 1..Len(Candidates) : Loads(Candidates[i])}

Attempted ==
    CASE call.fn = "load_raw_data" ->
            IF ~IsNone(call.filename) /\ Get(call.filename) # <<>>
            THEN {PathOf(ProjectLevel, "raw", Get(call.filename))}
            ELSE {PathOf(ProjectLevel, "raw", <<>>)}
      [] call.fn = "load_processed_data" ->
            {PathOf(ProjectLevel, "processed", call.filename)}
      [] call.fn = "load_trained_model" ->
            IF ~IsNone(call.model_path) THEN {Get(call.model_path)}
            ELSE {PathOf(ProjectLevel, "models", n) : n \in ModelFiles(call.model_name)}

\* C10: every not-found error of the three loaders names the paths that
\* were tried; for load_trained_model with a model_path, that model_path.
C10_NotFoundNamesAttempted ==
    (call.fn # "none" /\ NotFound) => Attempted \subseteq result.detail

\* The same statement for the two data loaders.
DataNotFoundNamesAttempted ==
    (call.fn \in {"load_raw_data", "load_processed_data"} /\ NotFound) =>
        Attempted \subseteq result.detail

\* The part about an explicit model_path.
ExplicitModelPathNamed ==
    (call.fn = "load_trained_model" /\ NotFound /\ ~IsNone(call.model_path)) =>
        Get(call.model_path) \in result.detail

=============================================================================
